---- MODULE Spec2Model ----
(***************************************************************************)
(* Model of the singly linked list of src/src/data_structure/linked_list.rs *)
(* The heap is a finite set of addresses; every node is a LinkedList struct *)
(* (value, next) living at one address, and the list the caller holds is    *)
(* the sentinel struct whose next field is the head pointer.                *)
(***************************************************************************)
EXTENDS Integers, Sequences, FiniteSets, TLC

\* ---------------------------------------------------------------- bounds
\* Number of heap addresses the allocator can hand out.
MaxNodes == 3
\* Stored values are 1..MaxVal (StoreType is generic; two values suffice
\* to tell elements apart).
MaxVal == 2
\* Indices passed to get/add_at/remove range over 0..MaxIdx, which is
\* beyond every count the heap allows.
MaxIdx == 4

Addr == 1..MaxNodes
Values == 1..MaxVal
Idx == 0..MaxIdx

\* ---------------------------------------------------------------- Option
\* Option<T>: None is the empty sequence, Some(x) the one-element sequence.
None == <<>>
Some(x) == <<x>>
is_some(o) == o # None
is_none(o) == o = None
unwrap(o) == o[1]

\* ---------------------------------------------------------------- state
VARIABLES
    head,      \* self.next of the list the caller holds: Option<Addr>
    next,      \* next field of the node at each address: Option<Addr>
    value,     \* value field of the node at each address: Option<Values>
    alloc,     \* addresses holding a live Box allocation
    last,      \* the last call made on the list and what it returned
    preSt,     \* the memory as it was before the last call
    abs,       \* the abstract sequence the same calls were run on
    absres,    \* the result the abstract sequence gave for the last call
    mode,      \* which kinds of mutating calls were made since new()
    pushed,    \* the values of the push calls, in call order, while mode
               \* is "back" or "front"
    roundtrip, \* whether the last call is remove(i) made right after
               \* add_at(x, i), and what get read before that add_at
    net,       \* insertions that succeeded minus removals that succeeded
    \* The call in progress, one step of the code at a time:
    pc,        \* where the call in progress stands ("idle": no call)
    call,      \* the call in progress: its name and arguments
    cur,       \* its local cur_node / cur_node_ptr: Option<Addr>
    cur_i,     \* its local cur_idx
    ntr,       \* its local node_to_remove: Option<Addr>
    stack,     \* the active invocations of Drop::drop, innermost last
    ret,       \* what the call returned: a Result and, for get, an Option
    log,       \* the writes and releases the call made, in order
    chain0,    \* the nodes reachable from the head when the call began
    iters,     \* the loop iterations the call has made
    bad        \* whether a node that is not live was read or released

\* The history kept about whole calls.
gvars == <<last, preSt, abs, absres, mode, pushed, roundtrip, net>>

\* The call in progress.
svars == <<pc, call, cur, cur_i, ntr, stack, ret, log, chain0, iters, bad>>

vars == <<head, next, value, alloc, gvars, svars>>

\* The memory the operations work on, as one record.
St == [head |-> head, next |-> next, value |-> value, alloc |-> alloc]

\* LinkedList::new(): value None, next None; no node is allocated.
new == [head |-> None,
        next |-> [a \in Addr |-> None],
        value |-> [a \in Addr |-> None],
        alloc |-> {}]

\* Box::new(LinkedList { value: Some(Box::new(v)), next: nx }) followed by
\* Box::leak: the allocator returns the address a, which holds no live node.
box_new(S, a, v, nx) ==
    [S EXCEPT !.value[a] = Some(v),
              !.next[a] = nx,
              !.alloc = @ \cup {a}]

\* ---------------------------------------------------------------- Drop
\* drop(Box::from_raw(p)): Drop::drop of the node at p runs first and, when
\* the node still has a next node, drops that node's Box the same way; then
\* the node's value is dropped and its memory freed.
RECURSIVE drop_box(_, _)
drop_box(S, p) ==
    LET S1 == IF is_some(S.next[p]) THEN drop_box(S, unwrap(S.next[p])) ELSE S
    IN  [S1 EXCEPT !.value[p] = None,
                   !.next[p] = None,
                   !.alloc = @ \ {p}]

\* ---------------------------------------------------------------- remove
\* remove_walk with the loop bound of the earlier draft (cur_idx < idx).
RECURSIVE remove_walk_draft(_, _, _, _)
remove_walk_draft(S, cur_node, cur_idx, idx) ==
    IF cur_idx < idx
    THEN IF is_some(S.next[cur_node])
         THEN remove_walk_draft(S, unwrap(S.next[cur_node]), cur_idx + 1, idx)
         ELSE None
    ELSE Some(cur_node)

\* The loop of remove for idx > 0: from the first node, step to the node
\* right before the one to remove. None is the early return Err(()).
RECURSIVE remove_walk(_, _, _, _)
remove_walk(S, cur_node, cur_idx, idx) ==
    IF cur_idx < idx - 1
    THEN IF is_some(S.next[cur_node])
         THEN remove_walk(S, unwrap(S.next[cur_node]), cur_idx + 1, idx)
         ELSE None
    ELSE Some(cur_node)

\* remove_head that empties the head pointer instead of advancing it.
remove_head_none(S, cur_node) ==
    LET S1 == [S EXCEPT !.head = None]
        S2 == [S1 EXCEPT !.next[cur_node] = None]
    IN  drop_box(S2, cur_node)

\* The unsafe block that unlinks and drops the first node (idx == 0).
remove_head(S, cur_node) ==
    LET S1 == [S EXCEPT !.head = S.next[cur_node]]
        S2 == [S1 EXCEPT !.next[cur_node] = None]
    IN  drop_box(S2, cur_node)

\* remove_after that releases the node without taking it out of the chain.
remove_after_nolink(S, cur_node, node_to_remove) ==
    LET S2 == [S EXCEPT !.next[node_to_remove] = None]
    IN  drop_box(S2, node_to_remove)

\* remove_after that does not clear the removed node's next link.
remove_after_noclear(S, cur_node, node_to_remove) ==
    LET S1 == [S EXCEPT !.next[cur_node] = S.next[node_to_remove]]
    IN  drop_box(S1, node_to_remove)

\* The unsafe block that unlinks and drops the node after cur_node.
remove_after(S, cur_node, node_to_remove) ==
    LET S1 == [S EXCEPT !.next[cur_node] = S.next[node_to_remove]]
        S2 == [S1 EXCEPT !.next[node_to_remove] = None]
    IN  drop_box(S2, node_to_remove)

\* remove that returns Ok when the node before idx has no next node.
remove_okempty(S, idx) ==
    IF idx = 0
    THEN IF is_some(S.head)
         THEN [st |-> remove_head(S, unwrap(S.head)), res |-> "Ok"]
         ELSE [st |-> S, res |-> "Err"]
    ELSE IF is_none(S.head)
         THEN [st |-> S, res |-> "Err"]
         ELSE LET before == remove_walk(S, unwrap(S.head), 0, idx)
              IN  IF is_none(before)
                  THEN [st |-> S, res |-> "Err"]
                  ELSE IF is_some(S.next[unwrap(before)])
                       THEN [st |-> remove_after(S, unwrap(before),
                                                 unwrap(S.next[unwrap(before)])),
                             res |-> "Ok"]
                       ELSE [st |-> S, res |-> "Ok"]

\* remove(&mut self, idx) -> Result<(), ()>
remove(S, idx) ==
    IF idx = 0
    THEN IF is_some(S.head)
         THEN [st |-> remove_head(S, unwrap(S.head)), res |-> "Ok"]
         ELSE [st |-> S, res |-> "Err"]
    ELSE IF is_none(S.head)
         THEN [st |-> S, res |-> "Err"]
         ELSE LET before == remove_walk(S, unwrap(S.head), 0, idx)
              IN  IF is_none(before)
                  THEN [st |-> S, res |-> "Err"]
                  ELSE IF is_some(S.next[unwrap(before)])
                       THEN [st |-> remove_after(S, unwrap(before),
                                                 unwrap(S.next[unwrap(before)])),
                             res |-> "Ok"]
                       ELSE [st |-> S, res |-> "Err"]

\* ---------------------------------------------------------------- push_front
\* push_front that moves the head pointer to the new node before it copies
\* the head pointer into the new node.
push_front_selfloop(S, v, a) ==
    LET S1 == box_new(S, a, v, None)
    IN  IF is_none(S1.head)
        THEN [S1 EXCEPT !.head = Some(a)]
        ELSE LET S2 == [S1 EXCEPT !.head = Some(a)]
             IN  [S2 EXCEPT !.next[a] = S2.head]

\* push_front that never points the new node at the current head.
push_front_nolink(S, v, a) ==
    LET S1 == box_new(S, a, v, None)
    IN  [S1 EXCEPT !.head = Some(a)]

\* push_front(&mut self, value); a is the address Box::new returns.
push_front(S, v, a) ==
    LET S1 == box_new(S, a, v, None)
    IN  IF is_none(S1.head)
        THEN [S1 EXCEPT !.head = Some(a)]
        ELSE LET S2 == [S1 EXCEPT !.next[a] = S1.head]
             IN  [S2 EXCEPT !.head = Some(a)]

\* ---------------------------------------------------------------- push_back
\* last_node without the loop: the first node is taken for the tail.
last_node_nowalk(S, cur_node_ptr) == cur_node_ptr

\* The loop of push_back: the last node of the chain that starts at cur.
RECURSIVE last_node(_, _)
last_node(S, cur_node_ptr) ==
    IF is_some(S.next[cur_node_ptr])
    THEN last_node(S, unwrap(S.next[cur_node_ptr]))
    ELSE cur_node_ptr

\* push_back that attaches the new node after the first node, keeping the
\* rest of the chain behind it.
push_back_second(S, v, a) ==
    IF is_none(S.head)
    THEN LET S1 == box_new(S, a, v, None)
         IN  [S1 EXCEPT !.head = Some(a)]
    ELSE LET cur_node_ptr == unwrap(S.head)
             S1 == box_new(S, a, v, S.next[cur_node_ptr])
         IN  [S1 EXCEPT !.next[cur_node_ptr] = Some(a)]

\* push_back(&mut self, value); a is the address Box::new returns.
push_back(S, v, a) ==
    IF is_none(S.head)
    THEN LET S1 == box_new(S, a, v, None)
         IN  [S1 EXCEPT !.head = Some(a)]
    ELSE LET cur_node_ptr == last_node(S, unwrap(S.head))
             S1 == box_new(S, a, v, None)
         IN  [S1 EXCEPT !.next[cur_node_ptr] = Some(a)]

\* ---------------------------------------------------------------- get_node_at
\* get_node_loop with the loop bound off by one (cur_idx <= idx).
RECURSIVE get_node_loop_offby(_, _, _, _)
get_node_loop_offby(S, cur_node, cur_idx, idx) ==
    IF cur_idx <= idx /\ is_some(cur_node)
    THEN get_node_loop_offby(S, S.next[unwrap(cur_node)], cur_idx + 1, idx)
    ELSE cur_node

\* The loop of get_node_at: cur_node is the link followed so far.
RECURSIVE get_node_loop(_, _, _, _)
get_node_loop(S, cur_node, cur_idx, idx) ==
    IF cur_idx < idx /\ is_some(cur_node)
    THEN get_node_loop(S, S.next[unwrap(cur_node)], cur_idx + 1, idx)
    ELSE cur_node

\* get_node_at(&self, idx) -> &Option<NonNull<LinkedList>>
get_node_at(S, idx) == get_node_loop(S, S.head, 0, idx)

\* ---------------------------------------------------------------- add_at
\* add_at that allocates the node before it looks for the node before idx.
add_at_leak(S, v, idx, a) ==
    IF idx = 0
    THEN [st |-> push_front(S, v, a), res |-> "Ok"]
    ELSE LET S1 == box_new(S, a, v, None)
             before_node == get_node_at(S, idx - 1)
         IN  IF is_some(before_node)
             THEN LET before_node_ptr == unwrap(before_node)
                      S2 == [S1 EXCEPT !.next[a] = S.next[before_node_ptr]]
                  IN  [st |-> [S2 EXCEPT !.next[before_node_ptr] = Some(a)],
                       res |-> "Ok"]
             ELSE [st |-> S1, res |-> "Err"]

\* add_at whose new node does not take over the next link of the node
\* before it.
add_at_nolink(S, v, idx, a) ==
    IF idx = 0
    THEN [st |-> push_front(S, v, a), res |-> "Ok"]
    ELSE LET before_node == get_node_at(S, idx - 1)
         IN  IF is_some(before_node)
             THEN LET before_node_ptr == unwrap(before_node)
                      S1 == box_new(S, a, v, None)
                  IN  [st |-> [S1 EXCEPT !.next[before_node_ptr] = Some(a)],
                       res |-> "Ok"]
             ELSE [st |-> S, res |-> "Err"]

\* add_at that places the new node after the node at idx, not before it.
add_at_after(S, v, idx, a) ==
    IF idx = 0
    THEN [st |-> push_front(S, v, a), res |-> "Ok"]
    ELSE LET before_node == get_node_at(S, idx)
         IN  IF is_some(before_node)
             THEN LET before_node_ptr == unwrap(before_node)
                      S1 == box_new(S, a, v, S.next[before_node_ptr])
                  IN  [st |-> [S1 EXCEPT !.next[before_node_ptr] = Some(a)],
                       res |-> "Ok"]
             ELSE [st |-> S, res |-> "Err"]

\* add_at(&mut self, value, idx) -> Result<(), ()>; a is the address
\* Box::new returns on the paths that allocate.
add_at(S, v, idx, a) ==
    IF idx = 0
    THEN [st |-> push_front(S, v, a), res |-> "Ok"]
    ELSE LET before_node == get_node_at(S, idx - 1)
         IN  IF is_some(before_node)
             THEN LET before_node_ptr == unwrap(before_node)
                      S1 == box_new(S, a, v, S.next[before_node_ptr])
                  IN  [st |-> [S1 EXCEPT !.next[before_node_ptr] = Some(a)],
                       res |-> "Ok"]
             ELSE [st |-> S, res |-> "Err"]

\* ---------------------------------------------------------------- get
\* get(&self, idx) -> Option<&StoreType>
get(S, idx) ==
    LET node == get_node_at(S, idx)
    IN  IF is_some(node) THEN S.value[unwrap(node)] ELSE None

\* ---------------------------------------------------------------- observers
\* The nodes reachable from the link `link`, in order, following at most n
\* next links (n bounds the walk so that it is defined on any heap).
RECURSIVE chain_from(_, _, _)
chain_from(S, link, n) ==
    IF is_some(link) /\ n > 0
    THEN <<unwrap(link)>> \o chain_from(S, S.next[unwrap(link)], n - 1)
    ELSE <<>>

\* The nodes reachable from the head pointer, first node first.
chain(S) == chain_from(S, S.head, MaxNodes + 1)

\* The number of nodes reachable from the head pointer.
count(S) == Len(chain(S))

\* The value stored in the node at position k (0-based) of the chain.
stored(S, k) == S.value[chain(S)[k + 1]]

\* What get(0), get(1), ..., get(MaxIdx) return.
reads(S) == [k \in Idx |-> get(S, k)]

\* What they return on a new list.
no_reads == reads(new)

\* ---------------------------------------------------------------- abstract sequence
\* The operations of the abstract sequence; positions are 0-based.
AbsPrepend(s, v) == <<v>> \o s
AbsAppend(s, v) == Append(s, v)
AbsInsert(s, i, v) ==
    IF i <= Len(s)
    THEN [seq |-> SubSeq(s, 1, i) \o <<v>> \o SubSeq(s, i + 1, Len(s)), res |-> "Ok"]
    ELSE [seq |-> s, res |-> "Err"]
AbsDelete(s, i) ==
    IF i < Len(s)
    THEN [seq |-> SubSeq(s, 1, i) \o SubSeq(s, i + 2, Len(s)), res |-> "Ok"]
    ELSE [seq |-> s, res |-> "Err"]
AbsGet(s, i) == IF i < Len(s) THEN Some(s[i + 1]) ELSE None

\* ---------------------------------------------------------------- actions
\* No call is in progress.
no_call == [op |-> "none", idx |-> 0, val |-> None]

\* Nothing was returned yet.
no_ret == [res |-> "Unit", got |-> None]

Init ==
    /\ head = new.head
    /\ next = new.next
    /\ value = new.value
    /\ alloc = new.alloc
    /\ last = [op |-> "new", idx |-> 0, val |-> None, res |-> "Unit", got |-> None]
    /\ preSt = new
    /\ abs = <<>>
    /\ absres = [res |-> "Unit", got |-> None]
    /\ mode = "new"
    /\ pushed = <<>>
    /\ roundtrip = [on |-> FALSE, before |-> no_reads]
    /\ net = 0
    /\ pc = "idle"
    /\ call = no_call
    /\ cur = None
    /\ cur_i = 0
    /\ ntr = None
    /\ stack = <<>>
    /\ ret = no_ret
    /\ log = <<>>
    /\ chain0 = <<>>
    /\ iters = 0
    /\ bad = FALSE

\* The memory after a call is S2.
Commit(S2) ==
    /\ head' = S2.head
    /\ next' = S2.next
    /\ value' = S2.value
    /\ alloc' = S2.alloc

\* A call list.push_front(v).
PushFront ==
    \E v \in Values, a \in Addr \ alloc :
        /\ LET S2 == push_front(St, v, a) IN Commit(S2)
        /\ last' = [op |-> "push_front", idx |-> 0, val |-> Some(v),
                    res |-> "Unit", got |-> None]
        /\ preSt' = St
        /\ abs' = AbsPrepend(abs, v)
        /\ absres' = [res |-> "Unit", got |-> None]
        /\ mode' = IF mode \in {"new", "front"} THEN "front" ELSE "mixed"
        /\ pushed' = IF mode \in {"new", "front"} THEN Append(pushed, v) ELSE <<>>
        /\ roundtrip' = [on |-> FALSE, before |-> no_reads]
        /\ net' = net + 1
        /\ UNCHANGED svars

\* A call list.push_back(v).
PushBack ==
    \E v \in Values, a \in Addr \ alloc :
        /\ LET S2 == push_back(St, v, a) IN Commit(S2)
        /\ last' = [op |-> "push_back", idx |-> 0, val |-> Some(v),
                    res |-> "Unit", got |-> None]
        /\ preSt' = St
        /\ abs' = AbsAppend(abs, v)
        /\ absres' = [res |-> "Unit", got |-> None]
        /\ mode' = IF mode \in {"new", "back"} THEN "back" ELSE "mixed"
        /\ pushed' = IF mode \in {"new", "back"} THEN Append(pushed, v) ELSE <<>>
        /\ roundtrip' = [on |-> FALSE, before |-> no_reads]
        /\ net' = net + 1
        /\ UNCHANGED svars

\* Whether add_at(_, idx) reaches one of its Box::new calls.
add_at_allocates(S, idx) == idx = 0 \/ is_some(get_node_at(S, idx - 1))

\* The step of a call list.add_at(v, idx) for which Box::new, if reached,
\* returns the address a.
AddAtStep(v, idx, a) ==
    LET r == add_at(St, v, idx, a)
        ar == AbsInsert(abs, idx, v)
    IN  /\ Commit(r.st)
        /\ last' = [op |-> "add_at", idx |-> idx, val |-> Some(v),
                    res |-> r.res, got |-> None]
        /\ preSt' = St
        /\ abs' = ar.seq
        /\ absres' = [res |-> ar.res, got |-> None]
        /\ mode' = "mixed"
        /\ pushed' = <<>>
        /\ roundtrip' = [on |-> FALSE, before |-> no_reads]
        /\ net' = IF r.res = "Ok" THEN net + 1 ELSE net
        /\ UNCHANGED svars

\* A call list.add_at(v, idx): one that allocates, or one that returns
\* before any allocation (the address is then not used).
AddAt ==
    \E v \in Values, idx \in Idx :
        \/ /\ add_at_allocates(St, idx)
           /\ \E a \in Addr \ alloc : AddAtStep(v, idx, a)
        \/ /\ ~add_at_allocates(St, idx)
           /\ AddAtStep(v, idx, CHOOSE a \in Addr : TRUE)

\* A call list.remove(idx).
Remove ==
    \E idx \in Idx :
        LET r == remove(St, idx)
            ar == AbsDelete(abs, idx)
        IN  /\ Commit(r.st)
            /\ last' = [op |-> "remove", idx |-> idx, val |-> None,
                        res |-> r.res, got |-> None]
            /\ preSt' = St
            /\ abs' = ar.seq
            /\ absres' = [res |-> ar.res, got |-> None]
            /\ mode' = "mixed"
            /\ pushed' = <<>>
            /\ roundtrip' = IF last.op = "add_at" /\ last.idx = idx
                            THEN [on |-> TRUE, before |-> reads(preSt)]
                            ELSE [on |-> FALSE, before |-> no_reads]
            /\ net' = IF r.res = "Ok" THEN net - 1 ELSE net
            /\ UNCHANGED svars

\* A call list.get(idx).
Get ==
    \E idx \in Idx :
        /\ Commit(St)
        /\ last' = [op |-> "get", idx |-> idx, val |-> None,
                    res |-> "Unit", got |-> get(St, idx)]
        /\ preSt' = St
        /\ absres' = [res |-> "Unit", got |-> AbsGet(abs, idx)]
        /\ roundtrip' = [on |-> FALSE, before |-> no_reads]
        /\ UNCHANGED <<abs, mode, pushed, net>>
        /\ UNCHANGED svars

Next == PushFront \/ PushBack \/ AddAt \/ Remove \/ Get

Spec == Init /\ [][Next]_vars

\* ---------------------------------------------------------------- the calls, step by step
\* The same code with every loop iteration, write and release as a step of
\* its own. A call begins when no call is in progress (pc = "idle") and ends
\* in pc = "ret"; Resume hands control back to the caller.

\* What the call in progress records when it begins.
Begin(c) ==
    /\ call' = c
    /\ chain0' = chain(St)
    /\ log' = <<>>
    /\ iters' = 0

\* The call returns r.
Return(r) ==
    /\ pc' = "ret"
    /\ ret' = [res |-> r, got |-> None]

\* The caller goes on: the locals of the call are gone.
Resume ==
    /\ pc = "ret"
    /\ pc' = "idle"
    /\ call' = no_call
    /\ cur' = None
    /\ cur_i' = 0
    /\ ntr' = None
    /\ ret' = no_ret
    /\ log' = <<>>
    /\ chain0' = <<>>
    /\ iters' = 0
    /\ UNCHANGED <<head, next, value, alloc, stack, bad, gvars>>

\* ---- Drop
\* The innermost active invocation of Drop::drop.
top == stack[Len(stack)]

\* The innermost invocation has run its body and waits for its fields to
\* be dropped.
to_fields(stk) == [stk EXCEPT ![Len(stk)].at = "fields"]

\* Drop::drop that never drops the next node.
drop_enter_norec(stk, self_next) == to_fields(stk)

\* The body of Drop::drop on a struct whose next field is self_next: when
\* there is a next node its Box is dropped, which invokes Drop::drop on it.
drop_enter(stk, self_next) ==
    IF is_some(self_next)
    THEN Append(to_fields(stk), [node |-> self_next, at |-> "drop"])
    ELSE to_fields(stk)

\* The innermost invocation of Drop::drop runs its body. The struct is the
\* list itself (node None) or the node at an address.
DropEnter ==
    /\ stack # <<>>
    /\ top.at = "drop"
    /\ LET self_next == IF is_none(top.node) THEN head ELSE next[unwrap(top.node)]
       IN  stack' = drop_enter(stack, self_next)
    /\ bad' = (bad \/ (is_some(top.node) /\ unwrap(top.node) \notin alloc))
    /\ UNCHANGED <<head, next, value, alloc, gvars>>
    /\ UNCHANGED <<pc, call, cur, cur_i, ntr, ret, log, chain0, iters>>

\* Drop::drop has returned: the fields of the struct are dropped (its value)
\* and, for a node, the memory of its Box is freed. The invocation is over.
DropFields ==
    /\ stack # <<>>
    /\ top.at = "fields"
    /\ stack' = SubSeq(stack, 1, Len(stack) - 1)
    /\ IF is_some(top.node)
       THEN LET p == unwrap(top.node)
            IN  /\ bad' = (bad \/ p \notin alloc)
                /\ value' = [value EXCEPT ![p] = None]
                /\ next' = [next EXCEPT ![p] = None]
                /\ alloc' = alloc \ {p}
                /\ log' = Append(log, [ev |-> "release", node |-> p])
       ELSE UNCHANGED <<bad, value, next, alloc, log>>
    /\ UNCHANGED <<head, gvars>>
    /\ UNCHANGED <<pc, call, cur, cur_i, ntr, ret, chain0, iters>>

\* The list goes out of scope: Drop::drop is invoked on the list itself.
DropList ==
    /\ pc = "idle"
    /\ pc' = "teardown"
    /\ Begin([op |-> "drop", idx |-> 0, val |-> None])
    /\ stack' = <<[node |-> None, at |-> "drop"]>>
    /\ UNCHANGED <<head, next, value, alloc, gvars>>
    /\ UNCHANGED <<cur, cur_i, ntr, ret, bad>>

\* Every invocation of Drop::drop is over: the list is gone.
DropDone ==
    /\ pc = "teardown"
    /\ stack = <<>>
    /\ pc' = "gone"
    /\ UNCHANGED <<head, next, value, alloc, gvars>>
    /\ UNCHANGED <<call, cur, cur_i, ntr, stack, ret, log, chain0, iters, bad>>

\* ---- remove
\* A call list.remove(idx) begins: the checks of self.next. For idx == 0
\* the node to remove is the first node and the link to rewrite is the
\* head pointer (cur is None).
RemoveCall ==
    \E idx \in Idx :
        /\ pc = "idle"
        /\ Begin([op |-> "remove", idx |-> idx, val |-> None])
        /\ cur_i' = 0
        /\ IF is_none(head)
           THEN Return("Err") /\ cur' = None /\ ntr' = None
           ELSE IF idx = 0
                THEN pc' = "rm_link" /\ cur' = None /\ ntr' = head /\ ret' = ret
                ELSE pc' = "rm_loop" /\ cur' = head /\ ntr' = None /\ ret' = ret
        /\ UNCHANGED <<head, next, value, alloc, gvars, stack, bad>>

\* One test of the loop condition of remove, and its body when it holds.
RemoveLoop ==
    /\ pc = "rm_loop"
    /\ IF cur_i < call.idx - 1
       THEN /\ bad' = (bad \/ unwrap(cur) \notin alloc)
            /\ IF is_some(next[unwrap(cur)])
               THEN /\ cur' = next[unwrap(cur)]
                    /\ cur_i' = cur_i + 1
                    /\ iters' = iters + 1
                    /\ UNCHANGED <<pc, ret>>
               ELSE /\ Return("Err")
                    /\ UNCHANGED <<cur, cur_i, iters>>
       ELSE /\ pc' = "rm_find"
            /\ UNCHANGED <<cur, cur_i, iters, ret, bad>>
    /\ UNCHANGED <<head, next, value, alloc, gvars>>
    /\ UNCHANGED <<call, ntr, stack, log, chain0>>

\* cur_node is the node right before the one to remove: take its next node.
RemoveFind ==
    /\ pc = "rm_find"
    /\ bad' = (bad \/ unwrap(cur) \notin alloc)
    /\ IF is_some(next[unwrap(cur)])
       THEN /\ ntr' = next[unwrap(cur)]
            /\ pc' = "rm_link"
            /\ ret' = ret
       ELSE /\ Return("Err")
            /\ ntr' = ntr
    /\ UNCHANGED <<head, next, value, alloc, gvars>>
    /\ UNCHANGED <<call, cur, cur_i, stack, log, chain0, iters>>

\* The link that held the node to remove now holds that node's next node.
RemoveLink ==
    /\ pc = "rm_link"
    /\ bad' = (bad \/ unwrap(ntr) \notin alloc)
    /\ IF is_none(cur)
       THEN head' = next[unwrap(ntr)] /\ next' = next
       ELSE next' = [next EXCEPT ![unwrap(cur)] = next[unwrap(ntr)]] /\ head' = head
    /\ log' = Append(log, [ev |-> "link", node |-> unwrap(ntr)])
    /\ pc' = "rm_clear"
    /\ UNCHANGED <<value, alloc, gvars>>
    /\ UNCHANGED <<call, cur, cur_i, ntr, stack, ret, chain0, iters>>

\* RemoveClear that leaves the next link of the node to remove as it is.
RemoveClear_skip ==
    /\ pc = "rm_clear"
    /\ pc' = "rm_drop"
    /\ UNCHANGED <<head, next, value, alloc, gvars>>
    /\ UNCHANGED <<call, cur, cur_i, ntr, stack, ret, log, chain0, iters, bad>>

\* The next link of the node to remove is set to None.
RemoveClear ==
    /\ pc = "rm_clear"
    /\ bad' = (bad \/ unwrap(ntr) \notin alloc)
    /\ next' = [next EXCEPT ![unwrap(ntr)] = None]
    /\ log' = Append(log, [ev |-> "clear", node |-> unwrap(ntr)])
    /\ pc' = "rm_drop"
    /\ UNCHANGED <<head, value, alloc, gvars>>
    /\ UNCHANGED <<call, cur, cur_i, ntr, stack, ret, chain0, iters>>

\* RemoveDrop that forgets the node instead of dropping its Box.
RemoveDrop_forget ==
    /\ pc = "rm_drop"
    /\ pc' = "rm_dropping"
    /\ UNCHANGED <<head, next, value, alloc, gvars>>
    /\ UNCHANGED <<call, cur, cur_i, ntr, stack, ret, log, chain0, iters, bad>>

\* drop(Box::from_raw(node_to_remove)): Drop::drop is invoked on the node.
RemoveDrop ==
    /\ pc = "rm_drop"
    /\ stack' = <<[node |-> ntr, at |-> "drop"]>>
    /\ pc' = "rm_dropping"
    /\ UNCHANGED <<head, next, value, alloc, gvars>>
    /\ UNCHANGED <<call, cur, cur_i, ntr, ret, log, chain0, iters, bad>>

\* The drop is over: remove returns Ok(()).
RemoveReturn ==
    /\ pc = "rm_dropping"
    /\ stack = <<>>
    /\ Return("Ok")
    /\ UNCHANGED <<head, next, value, alloc, gvars>>
    /\ UNCHANGED <<call, cur, cur_i, ntr, stack, log, chain0, iters, bad>>

\* ---- push_front
\* A call list.push_front(v): it has no loop and is one step.
PushFrontCall ==
    \E v \in Values, a \in Addr \ alloc :
        /\ pc = "idle"
        /\ Begin([op |-> "push_front", idx |-> 0, val |-> Some(v)])
        /\ LET S2 == push_front(St, v, a) IN Commit(S2)
        /\ Return("Unit")
        /\ UNCHANGED <<gvars, cur, cur_i, ntr, stack, bad>>


\* ---- push_back
\* A call list.push_back(v) begins: the check of self.next. cur is None when
\* the list is empty.
PushBackCall ==
    \E v \in Values :
        /\ pc = "idle"
        /\ Addr \ alloc # {}
        /\ Begin([op |-> "push_back", idx |-> 0, val |-> Some(v)])
        /\ IF is_none(head)
           THEN pc' = "pb_alloc" /\ cur' = None
           ELSE pc' = "pb_loop" /\ cur' = head
        /\ UNCHANGED <<head, next, value, alloc, gvars>>
        /\ UNCHANGED <<cur_i, ntr, stack, ret, bad>>

\* PushBackLoop whose body does not move to the next node.
PushBackLoop_stay ==
    /\ pc = "pb_loop"
    /\ iters' = iters + 1
    /\ UNCHANGED <<head, next, value, alloc, gvars>>
    /\ UNCHANGED <<pc, call, cur, cur_i, ntr, stack, ret, log, chain0, bad>>

\* One test of the loop condition of push_back, and its body when it holds.
PushBackLoop ==
    /\ pc = "pb_loop"
    /\ bad' = (bad \/ unwrap(cur) \notin alloc)
    /\ IF is_some(next[unwrap(cur)])
       THEN /\ cur' = next[unwrap(cur)]
            /\ iters' = iters + 1
            /\ pc' = pc
       ELSE /\ pc' = "pb_alloc"
            /\ UNCHANGED <<cur, iters>>
    /\ UNCHANGED <<head, next, value, alloc, gvars>>
    /\ UNCHANGED <<call, cur_i, ntr, stack, ret, log, chain0>>

\* Box::new returns the address a and the new node becomes the first node
\* of an empty list or the next node of the last node.
PushBackAlloc ==
    \E a \in Addr \ alloc :
        /\ pc = "pb_alloc"
        /\ LET S1 == box_new(St, a, unwrap(call.val), None)
               S2 == IF is_none(cur)
                     THEN [S1 EXCEPT !.head = Some(a)]
                     ELSE [S1 EXCEPT !.next[unwrap(cur)] = Some(a)]
           IN  Commit(S2)
        /\ Return("Unit")
        /\ UNCHANGED <<gvars, call, cur, cur_i, ntr, stack, log, chain0, iters, bad>>

\* ---- get_node_at, get, add_at
\* A call list.get(idx) begins: get_node_at(idx) starts at the head pointer.
GetCall ==
    \E idx \in Idx :
        /\ pc = "idle"
        /\ Begin([op |-> "get", idx |-> idx, val |-> None])
        /\ cur' = head
        /\ cur_i' = 0
        /\ pc' = "gn_loop"
        /\ UNCHANGED <<head, next, value, alloc, gvars>>
        /\ UNCHANGED <<ntr, stack, ret, bad>>

\* The index get_node_at was called with: idx for get, idx - 1 for add_at.
node_idx == IF call.op = "get" THEN call.idx ELSE call.idx - 1

\* One test of the loop condition of get_node_at, and its body when it
\* holds. cur is the link followed so far.
NodeLoop ==
    /\ pc = "gn_loop"
    /\ IF cur_i < node_idx /\ is_some(cur)
       THEN /\ bad' = (bad \/ unwrap(cur) \notin alloc)
            /\ cur' = next[unwrap(cur)]
            /\ cur_i' = cur_i + 1
            /\ iters' = iters + 1
            /\ pc' = pc
       ELSE /\ pc' = IF call.op = "get" THEN "get_val" ELSE "aa_splice"
            /\ UNCHANGED <<cur, cur_i, iters, bad>>
    /\ UNCHANGED <<head, next, value, alloc, gvars>>
    /\ UNCHANGED <<call, ntr, stack, ret, log, chain0>>

\* The match of get on the node found: its value, or None.
GetValue ==
    /\ pc = "get_val"
    /\ bad' = (bad \/ (is_some(cur) /\ unwrap(cur) \notin alloc))
    /\ pc' = "ret"
    /\ ret' = [res |-> "Unit",
               got |-> IF is_some(cur) THEN value[unwrap(cur)] ELSE None]
    /\ UNCHANGED <<head, next, value, alloc, gvars>>
    /\ UNCHANGED <<call, cur, cur_i, ntr, stack, log, chain0, iters>>

\* A call list.add_at(v, idx) begins: push_front for idx == 0, and
\* otherwise get_node_at(idx - 1) starts at the head pointer.
AddAtCall ==
    \E v \in Values, idx \in Idx :
        /\ pc = "idle"
        /\ Begin([op |-> "add_at", idx |-> idx, val |-> Some(v)])
        /\ \/ /\ idx = 0
              /\ \E a \in Addr \ alloc :
                    LET S2 == push_front(St, v, a) IN Commit(S2)
              /\ Return("Ok")
              /\ UNCHANGED <<cur, cur_i>>
           \/ /\ idx > 0
              /\ add_at_allocates(St, idx) => Addr \ alloc # {}
              /\ cur' = head
              /\ cur_i' = 0
              /\ pc' = "gn_loop"
              /\ UNCHANGED <<head, next, value, alloc, ret>>
        /\ UNCHANGED <<gvars, ntr, stack, bad>>

\* The if let of add_at on the node before idx: a new node is spliced in
\* after it, or add_at returns Err(()).
AddAtSplice ==
    /\ pc = "aa_splice"
    /\ \/ /\ is_some(cur)
          /\ \E a \in Addr \ alloc :
                LET before_node_ptr == unwrap(cur)
                    S1 == box_new(St, a, unwrap(call.val), next[before_node_ptr])
                    S2 == [S1 EXCEPT !.next[before_node_ptr] = Some(a)]
                IN  Commit(S2)
          /\ bad' = (bad \/ unwrap(cur) \notin alloc)
          /\ Return("Ok")
       \/ /\ is_none(cur)
          /\ Return("Err")
          /\ UNCHANGED <<head, next, value, alloc, bad>>
    /\ UNCHANGED <<gvars, call, cur, cur_i, ntr, stack, log, chain0, iters>>

\* ---- the specification of the calls step by step
\* The steps that begin a call.
Calls ==
    \/ RemoveCall
    \/ PushFrontCall
    \/ PushBackCall
    \/ GetCall
    \/ AddAtCall
    \/ DropList

\* The steps of a call in progress.
Work ==
    \/ Resume
    \/ DropEnter
    \/ DropFields
    \/ DropDone
    \/ RemoveLoop
    \/ RemoveFind
    \/ RemoveLink
    \/ RemoveClear
    \/ RemoveDrop
    \/ RemoveReturn
    \/ PushBackLoop
    \/ PushBackAlloc
    \/ NodeLoop
    \/ GetValue
    \/ AddAtSplice

StepNext == Calls \/ Work

SpecSteps == Init /\ [][StepNext]_vars

\* A call in progress keeps running: the code is single-threaded and has no
\* suspension point.
SpecStepsFair == SpecSteps /\ WF_vars(Work)

\* ---------------------------------------------------------------- the earlier draft
\* The list of src/src/linked_list/linked_list.rs, on the same memory. A
\* call returns "Ok", "Err" or "Unit", or it panics ("Panic").

\* drop(Box::from_raw(p)) in the draft: Drop::drop is todo!(), which
\* panics; the unwinding still drops the node's value and frees its memory.
draft_drop_box(S, p) ==
    [S EXCEPT !.value[p] = None,
              !.next[p] = None,
              !.alloc = @ \ {p}]

\* The loop of the draft's remove for idx > 0: idx steps from the first
\* node. None is the early return Err(()).
RECURSIVE draft_remove_walk(_, _, _, _)
draft_remove_walk(S, cur_node, cur_idx, idx) ==
    IF cur_idx < idx
    THEN IF is_some(S.next[cur_node])
         THEN draft_remove_walk(S, unwrap(S.next[cur_node]), cur_idx + 1, idx)
         ELSE None
    ELSE Some(cur_node)

\* The draft's remove(&mut self, idx) -> Result<(), ()>
draft_remove(S, idx) ==
    IF is_none(S.head)
    THEN [st |-> S, res |-> "Err"]
    ELSE IF idx = 0
         THEN LET cur_node == unwrap(S.head)
              IN  [st |-> [S EXCEPT !.head = S.next[cur_node]], res |-> "Ok"]
         ELSE LET w == draft_remove_walk(S, unwrap(S.head), 0, idx)
              IN  IF is_none(w) \/ is_none(S.next[unwrap(w)])
                  THEN [st |-> S, res |-> "Err"]
                  ELSE LET cur_node == unwrap(w)
                           node_to_remove == unwrap(S.next[cur_node])
                           S1 == IF is_some(S.next[node_to_remove])
                                 THEN [S EXCEPT !.next[cur_node] = S.next[node_to_remove]]
                                 ELSE S
                       IN  [st |-> draft_drop_box(S1, node_to_remove), res |-> "Panic"]

\* The draft's push_front(&mut self, value)
draft_push_front(S, v, a) ==
    LET S1 == box_new(S, a, v, None)
    IN  IF is_none(S.head)
        THEN [S1 EXCEPT !.head = Some(a)]
        ELSE [S1 EXCEPT !.next[a] = S.head, !.head = Some(a)]

\* The loop of the draft's push_back: from cur_node_ptr to the last node.
RECURSIVE draft_last_node(_, _)
draft_last_node(S, cur_node_ptr) ==
    IF is_some(S.next[cur_node_ptr])
    THEN draft_last_node(S, unwrap(S.next[cur_node_ptr]))
    ELSE cur_node_ptr

\* The draft's push_back(&mut self, value)
draft_push_back(S, v, a) ==
    IF is_none(S.head)
    THEN [box_new(S, a, v, None) EXCEPT !.head = Some(a)]
    ELSE LET cur_node_ptr == draft_last_node(S, unwrap(S.head))
             S1 == box_new(S, a, v, None)
         IN  [S1 EXCEPT !.next[cur_node_ptr] = Some(a)]

\* The program goes on after a call unless the call panicked.
draft_running == last.res # "Panic"

\* A call list.push_front(v) of the draft.
DraftPushFront ==
    \E v \in Values, a \in Addr \ alloc :
        /\ draft_running
        /\ LET S2 == draft_push_front(St, v, a) IN Commit(S2)
        /\ last' = [op |-> "push_front", idx |-> 0, val |-> Some(v),
                    res |-> "Unit", got |-> None]
        /\ preSt' = St
        /\ UNCHANGED <<abs, absres, mode, pushed, roundtrip, net>>
        /\ UNCHANGED svars

\* A call list.push_back(v) of the draft.
DraftPushBack ==
    \E v \in Values, a \in Addr \ alloc :
        /\ draft_running
        /\ LET S2 == draft_push_back(St, v, a) IN Commit(S2)
        /\ last' = [op |-> "push_back", idx |-> 0, val |-> Some(v),
                    res |-> "Unit", got |-> None]
        /\ preSt' = St
        /\ UNCHANGED <<abs, absres, mode, pushed, roundtrip, net>>
        /\ UNCHANGED svars

\* A call list.remove(idx) of the draft.
DraftRemove ==
    \E idx \in Idx :
        /\ draft_running
        /\ LET r == draft_remove(St, idx)
           IN  /\ Commit(r.st)
               /\ last' = [op |-> "remove", idx |-> idx, val |-> None,
                           res |-> r.res, got |-> None]
        /\ preSt' = St
        /\ UNCHANGED <<abs, absres, mode, pushed, roundtrip, net>>
        /\ UNCHANGED svars

DraftNext == DraftPushFront \/ DraftPushBack \/ DraftRemove

SpecDraft == Init /\ [][DraftNext]_vars

\* ---------------------------------------------------------------- claims
\* C1: a call remove(idx) with idx < count (the count before the call,
\* preSt being the memory before it) returns Ok, the count goes down
\* by exactly 1, every element that was at a position k > idx is at
\* position k - 1 afterwards, and every element that was at a position
\* k < idx is still at position k.
C1_RemoveShifts ==
    LET n == count(preSt)
    IN  (last.op = "remove" /\ last.idx < n) =>
            /\ last.res = "Ok"
            /\ count(St) = n - 1
            /\ \A k \in Idx :
                /\ (k > last.idx /\ k < n) => get(St, k - 1) = get(preSt, k)
                /\ (k < last.idx) => get(St, k) = get(preSt, k)

\* A node was removed from between two others.
C1_Witness ==
    /\ last.op = "remove"
    /\ last.res = "Ok"
    /\ last.idx > 0
    /\ last.idx < count(St)

\* C2: remove(idx) returns Err exactly when idx >= count, and a call that
\* returns Err leaves the memory as it was: no link rewritten, no node
\* released, and get(k) the same for every k.
C2_RemoveErr ==
    last.op = "remove" =>
        /\ (last.res = "Err") <=> (last.idx >= count(preSt))
        /\ (last.res = "Err") => (St = preSt /\ reads(St) = reads(preSt))

\* remove failed on a list of two or more nodes, past its end.
C2_Witness ==
    /\ last.op = "remove"
    /\ last.res = "Err"
    /\ count(St) >= 2
    /\ last.idx > count(St)

\* C3: a call add_at(value, idx) with idx <= count returns Ok; afterwards
\* get(idx) is value, every element that was at a position k >= idx is at
\* position k + 1, every element that was at a position k < idx is still at
\* position k, and the count has grown by exactly 1.
C3_AddAtShifts ==
    LET n == count(preSt)
    IN  (last.op = "add_at" /\ last.idx <= n) =>
            /\ last.res = "Ok"
            /\ get(St, last.idx) = last.val
            /\ count(St) = n + 1
            /\ \A k \in Idx :
                /\ (k >= last.idx /\ k < n) => get(St, k + 1) = get(preSt, k)
                /\ (k < last.idx) => get(St, k) = get(preSt, k)

\* A value was inserted between two nodes.
C3_Witness ==
    /\ last.op = "add_at"
    /\ last.res = "Ok"
    /\ last.idx > 0
    /\ last.idx < count(St) - 1

\* C4: a call add_at(value, idx) with idx > count returns Err, allocates no
\* node and leaves the memory as it was.
C4_AddAtErr ==
    (last.op = "add_at" /\ last.idx > count(preSt)) =>
        /\ last.res = "Err"
        /\ alloc = preSt.alloc
        /\ St = preSt
        /\ reads(St) = reads(preSt)

\* add_at failed at idx == count + 1 on a list that is not empty.
C4_Witness ==
    /\ last.op = "add_at"
    /\ last.res = "Err"
    /\ count(St) >= 1
    /\ last.idx = count(St) + 1

\* C5: get(idx) returns a value exactly when idx < count, the value is the
\* one stored at position idx, and every call of get returned what this
\* says (no call of get fails).
C5_GetInRange ==
    LET n == count(St)
    IN  /\ \A idx \in Idx :
            /\ is_some(get(St, idx)) <=> idx < n
            /\ idx < n => get(St, idx) = stored(St, idx)
        /\ last.op = "get" =>
            /\ is_some(last.got) <=> last.idx < n
            /\ last.idx < n => last.got = stored(St, last.idx)

\* get returned the value of a node that is not the first one.
C5_Witness ==
    /\ last.op = "get"
    /\ last.idx > 0
    /\ is_some(last.got)

\* C6: after n push_back calls on a new list with the values v0..vn-1,
\* get(i) is vi for every i < n and get(n) is absent.
C6_PushBackOrder ==
    mode = "back" =>
        /\ \A i \in 0..(Len(pushed) - 1) : get(St, i) = Some(pushed[i + 1])
        /\ get(St, Len(pushed)) = None

\* Three values, not all equal, were pushed to the back.
C6_Witness ==
    /\ mode = "back"
    /\ Len(pushed) >= 3
    /\ pushed[1] # pushed[2]

\* C7: after n push_front calls on a new list with the values v0..vn-1,
\* get(i) is v(n-1-i) for every i < n.
C7_PushFrontOrder ==
    mode = "front" =>
        \A i \in 0..(Len(pushed) - 1) : get(St, i) = Some(pushed[Len(pushed) - i])

\* Three values, not all equal, were pushed to the front.
C7_Witness ==
    /\ mode = "front"
    /\ Len(pushed) >= 3
    /\ pushed[1] # pushed[2]

\* C8: add_at(x, i) followed at once by remove(i) leaves get(k) for every k
\* as it was before the two calls.
C8_RoundTrip ==
    roundtrip.on => reads(St) = roundtrip.before

\* The round trip went through the middle of a list.
C8_Witness ==
    /\ roundtrip.on
    /\ last.res = "Ok"
    /\ last.idx > 0
    /\ last.idx < count(St)

\* C9: add_at(x, count) returns Ok and leaves the memory exactly as
\* push_back(x) would, the allocator returning the same address.
C9_AddAtCountIsPushBack ==
    (last.op = "add_at" /\ last.idx = count(preSt)) =>
        /\ last.res = "Ok"
        /\ \E a \in alloc \ preSt.alloc : St = push_back(preSt, unwrap(last.val), a)

\* add_at appended to a list of two or more nodes.
C9_Witness ==
    /\ last.op = "add_at"
    /\ last.res = "Ok"
    /\ last.idx >= 2
    /\ last.idx = count(St) - 1

\* C10: after every sequence of push_front, push_back, add_at and remove
\* calls on a new list, get(0), get(1), ... read what the abstract sequence
\* holds, and the result of each call is the result the abstract sequence
\* gave for it.
C10_RefinesSequence ==
    /\ reads(St) = [k \in Idx |-> AbsGet(abs, k)]
    /\ last.res = absres.res
    /\ last.got = absres.got

\* A remove succeeded on a list built by calls of more than one kind and
\* left two or more elements.
C10_Witness ==
    /\ mode = "mixed"
    /\ last.op = "remove"
    /\ last.res = "Ok"
    /\ Len(abs) >= 2
    /\ abs[1] # abs[2]

\* The number of links (the head pointer or a next field) that hold p.
Incoming(S, p) ==
    (IF S.head = Some(p) THEN 1 ELSE 0) + Cardinality({q \in Addr : S.next[q] = Some(p)})

\* C12: between calls, every node reachable from the head pointer is live
\* (none has been released) and exactly one link holds it: the head pointer
\* for the first node, the next field of the node before it for the others.
C12_SingleOwner ==
    LET c == chain(St)
    IN  \A k \in 1..Len(c) :
            /\ c[k] \in alloc
            /\ Incoming(St, c[k]) = 1
            /\ IF k = 1 THEN head = Some(c[k]) ELSE next[c[k - 1]] = Some(c[k])

\* A node that had a node before it was removed and two nodes remain.
C12_Witness ==
    /\ last.op = "remove"
    /\ last.res = "Ok"
    /\ last.idx > 0
    /\ count(St) >= 2

\* C13: after every call the chain from the head pointer is a simple finite
\* path: no node occurs twice and the last node has no next node.
C13_Acyclic ==
    LET c == chain(St)
    IN  /\ Len(c) <= MaxNodes
        /\ \A i, j \in 1..Len(c) : i # j => c[i] # c[j]
        /\ c # <<>> => next[c[Len(c)]] = None

\* push_front put a third node in front of two.
C13_Witness ==
    /\ last.op = "push_front"
    /\ count(St) >= 3

\* C14: between calls the number of nodes reachable from the head pointer
\* is the number of insertions that succeeded minus the number of removals
\* that succeeded, and a call that returned Err did not change it.
C14_CountIsNet ==
    /\ count(St) = net
    /\ last.res = "Err" => count(St) = count(preSt)

\* A removal succeeded and left a node, after insertions.
C14_Witness ==
    /\ last.op = "remove"
    /\ last.res = "Ok"
    /\ net >= 1


\* ---- claims about the calls step by step (SpecSteps)

\* The nodes of a sequence of addresses.
nodes_of(c) == {c[k] : k \in 1..Len(c)}

\* The positions of the log at which node p is released.
releases_of(p) == {i \in 1..Len(log) : log[i].ev = "release" /\ log[i].node = p}

\* C11: when the list is destroyed, every node that was reachable from the
\* head pointer is released exactly once (its value dropped, its memory
\* freed), nothing else is released, and no released node is dereferenced
\* or released again during the teardown.
C11_TeardownReleasesAll ==
    /\ pc \in {"teardown", "gone"} => ~bad
    /\ pc = "gone" =>
          /\ \A p \in nodes_of(chain0) :
                /\ Cardinality(releases_of(p)) = 1
                /\ p \notin alloc
                /\ value[p] = None
          /\ Len(log) = Len(chain0)
          /\ alloc = {}

C11_Witness == pc = "gone" /\ Len(chain0) >= 2 /\ Len(log) >= 2

\* C15: during the destruction of the list the number of invocations of
\* drop that are active at the same time does not grow with the number of
\* nodes: at most the drop of the list and the drop of one node.
C15_BoundedDrops == pc = "teardown" => Len(stack) <= 2

\* C16: on destruction the nodes are released from head to tail: the node
\* at position k + 1 is never released while the node at position k is not.
C16_HeadToTail ==
    pc \in {"teardown", "gone"} =>
        \A k \in 1..(Len(chain0) - 1) :
            chain0[k + 1] \notin alloc => chain0[k] \notin alloc

\* C17: a successful remove(idx) first sets the link that held the node at
\* position idx to that node's successor, then clears the node's own next
\* link, then releases the node; it releases no other node, and the chain
\* is the old chain without that node.
C17_RemoveOrder ==
    (pc = "ret" /\ call.op = "remove" /\ ret.res = "Ok") =>
        /\ call.idx + 1 <= Len(chain0)
        /\ LET n == chain0[call.idx + 1]
           IN  /\ log = << [ev |-> "link", node |-> n],
                           [ev |-> "clear", node |-> n],
                           [ev |-> "release", node |-> n] >>
               /\ n \notin alloc
               /\ chain(St) = [k \in 1..(Len(chain0) - 1) |->
                                  IF k <= call.idx THEN chain0[k] ELSE chain0[k + 1]]
               /\ nodes_of(chain(St)) \subseteq alloc
        /\ ~bad

C17_Witness ==
    /\ pc = "ret"
    /\ call.op = "remove"
    /\ ret.res = "Ok"
    /\ call.idx = 1
    /\ Len(chain0) = 3

\* C18: between two operations no node is leaked and none was released
\* twice: the allocated nodes are exactly the nodes reachable from the head
\* pointer.
C18_NoLeak ==
    pc \in {"idle", "ret"} =>
        /\ alloc = nodes_of(chain(St))
        /\ ~bad

C18_Witness ==
    /\ pc = "ret"
    /\ call.op \in {"remove", "add_at"}
    /\ ret.res = "Err"
    /\ alloc # {}


\* C19: every call and the destructor complete, for every idx, and the
\* traversal loop of a call (to the tail in push_back, to position idx in
\* get_node_at, to the predecessor in remove) runs its body at most count
\* times.
C19_Terminates ==
    /\ [](iters <= Len(chain0))
    /\ (pc \notin {"idle", "ret", "gone"}) ~> (pc \in {"ret", "gone"})

C19_Witness ==
    /\ pc = "ret"
    /\ call.op = "get"
    /\ call.idx > Len(chain0)
    /\ iters = Len(chain0)
    /\ iters >= 2


\* ---- claims about the earlier draft (SpecDraft)

\* C20: in the earlier draft, remove(idx) with 0 < idx < count returns Ok
\* and removes the element that was at position idx: the elements before
\* idx are unchanged and the elements after idx are one position earlier.
C20_DraftRemoveAtIdx ==
    LET n == count(preSt)
    IN  (last.op = "remove" /\ 0 < last.idx /\ last.idx < n) =>
            /\ last.res = "Ok"
            /\ count(St) = n - 1
            /\ \A k \in 0..(n - 2) :
                  stored(St, k) = IF k < last.idx
                                  THEN stored(preSt, k)
                                  ELSE stored(preSt, k + 1)


\* C21: in the earlier draft, after every sequence of push_front, push_back
\* and remove calls that returned, the nodes reachable from the head pointer
\* are exactly the allocated nodes: no released node is reachable and no
\* unlinked node is left allocated.
C21_DraftReachableIsAllocated ==
    draft_running => nodes_of(chain(St)) = alloc

====
